---- MODULE Spec2Model ----
(***************************************************************************)
(* vectorize_tour_scheduling.py of activitysim: tours are scheduled into   *)
(* time slots, one pass (schedule_tours) per tour_num group and, with a    *)
(* dict of specs, per tour_type key.  The timetable and the choice         *)
(* evaluator (interaction_sample_simulate) live in activitysim.core and    *)
(* are modelled from their described contract.                             *)
(***************************************************************************)
EXTENDS Integers, Sequences, FiniteSets, TLC

\* Largest tour population enumerated.
MaxTours == 3

\* Largest tour population of the category comparison.
MaxCategoryTours == 4

Persons == {1, 2}
TourNums == {1, 2}
TourTypes == {"commute", "errand"}

\* The tdd alternatives of the general runs: windows over two half days,
\* index labels 0..2 in table order; alternative 2 overlaps the other two.
WindowAlts ==
    << [id |-> 0, start |-> 0, end |-> 4, duration |-> 4],
       [id |-> 1, start |-> 4, end |-> 8, duration |-> 4],
       [id |-> 2, start |-> 0, end |-> 8, duration |-> 8] >>

\* The four half-day slots of the two-person scenario, index labels 0..3.
HalfDayAlts ==
    << [id |-> 0, start |-> 0, end |-> 4, duration |-> 4],
       [id |-> 1, start |-> 4, end |-> 8, duration |-> 4],
       [id |-> 2, start |-> 8, end |-> 12, duration |-> 4],
       [id |-> 3, start |-> 12, end |-> 16, duration |-> 4] >>

VARIABLES
    tours,                      \* input: tour_id -> [person_id, tour_num, tour_type]
    harness,                    \* the caller: which run this is, its inputs, earlier results
    persons_merged,             \* input: index of the persons table
    alts,                       \* input: the alternatives table, in row order
    spec,                       \* input: [dict, keys, frames]: one spec, or a dict keyed on tour_type
    timetable,                  \* the injected timetable: person -> assigned alternatives
    previous_tour_by_personid,  \* person -> alternative of the most recent tour
    choice_list,                \* the choices Series of the passes that returned
    loop,                       \* [g, k]: position in the tour_num groups and the spec keys
    pc,                         \* the statement the run is at
    batch,                      \* schedule_tours' local tours (rebound by the merge)
    prev_cols,                  \* tour_id -> joined start_previous / end_previous
    alt_tdd,                    \* the interaction rows handed to the evaluator
    choices,                    \* the evaluator's Series: <<tour_id, tdd>> in row order
    tdd,                        \* the returned table
    fault,                      \* the exception that ended the run, "" if none
    calls,                      \* number of calls made to each collaborator
    assigned,                   \* every <<person, alternative>> passed to timetable.assign
    pass_batches,               \* the tours argument of every schedule_tours call
    at_start,                   \* calls, timetable and previous state when the pass began
    avail_seen,                 \* tour_id -> alternatives tour_available reported for it
    prev_seen,                  \* tour_id -> [cols, at]: the joined columns, Len(assigned) then
    picked_in_rows              \* the evaluator has only returned rows it was handed

vars == << tours, harness, persons_merged, alts, spec, timetable, previous_tour_by_personid,
           choice_list, loop, pc, batch, prev_cols, alt_tdd, choices, tdd, fault,
           calls, assigned, pass_batches, at_start, avail_seen, prev_seen,
           picked_in_rows >>

(***************************************************************************)
(* Tables                                                                  *)
(***************************************************************************)
Range(s) == {s[i] : i \in DOMAIN s}

RECURSIVE Flatten(_)
Flatten(ss) == IF ss = << >> THEN << >> ELSE Head(ss) \o Flatten(Tail(ss))

\* alts.index
AltIndex(a) == [i \in DOMAIN a |-> a[i].id]

\* alts.loc[label]
AltLoc(a, label) == a[CHOOSE i \in DOMAIN a : a[i].id = label]

\* alts.take([pos]): positional, zero based
AltTake(a, pos) == a[pos + 1]

\* tours.person_id of a list of tour ids
PersonIds(ids) == [i \in DOMAIN ids |-> tours[ids[i]].person_id]

\* tours.person_id.unique()
UniquePersons == {tours[t].person_id : t \in DOMAIN tours}

(***************************************************************************)
(* The timetable (activitysim.core.timetable)                              *)
(***************************************************************************)
Overlaps(x, y) == x.start < y.end /\ y.start < x.end

\* timetable.tour_available for one (person, alternative) pair
TourAvailable(tt, person, label) ==
    \A b \in tt[person] : ~Overlaps(AltLoc(alts, b), AltLoc(alts, label))

RECURSIVE AssignAll(_, _)
AssignAll(tt, pairs) ==
    IF pairs = << >> THEN tt
    ELSE AssignAll([tt EXCEPT ![Head(pairs)[1]] = @ \cup {Head(pairs)[2]}], Tail(pairs))

(***************************************************************************)
(* Inputs                                                                  *)
(***************************************************************************)
TourKinds == [person_id : Persons, tour_num : TourNums, tour_type : TourTypes]

TypeRank(ty) == IF ty = "commute" THEN 0 ELSE 1

\* Tour tables are enumerated up to the order of their rows: sorted by
\* person, then tour_num, then tour_type.
Rank(t) == (t.person_id * 10 + t.tour_num) * 2 + TypeRank(t.tour_type)

PopulationsUpTo(max) ==
    UNION { { s \in [1..n -> TourKinds] :
                \A i \in 1..(n - 1) : Rank(s[i]) <= Rank(s[i + 1]) } : n \in 1..max }

Populations == PopulationsUpTo(MaxTours)

\* spec is one DataFrame, or a dict keyed on tour_type (iterated in key order).
\* keys are the dict's keys in iteration order, frames the spec of each key
\* (of the one spec when it is no dict).
SpecShapes ==
    { [dict |-> FALSE, keys |-> << >>, frames |-> <<"spec">>],
      [dict |-> TRUE, keys |-> <<"commute">>, frames |-> <<"spec">>],
      [dict |-> TRUE, keys |-> <<"commute", "errand">>, frames |-> <<"spec", "spec">>],
      [dict |-> TRUE, keys |-> <<"errand", "commute">>, frames |-> <<"spec", "spec">>] }

\* What a person has in the timetable before the run: nothing or one tour.
InitialOccupancy(a) == {{}} \cup {{a[i].id} : i \in DOMAIN a}

NoCalls == [tour_available |-> 0, simulate |-> 0, prev_write |-> 0, assign |-> 0,
            replace_table |-> 0]

LastAlternative(a) == AltIndex(a)[Len(a)]

\* alts.index[0]
FirstAlternative(a) == AltIndex(a)[1]

\* The state after lines 197-209: inputs asserted, previous tours initialised.
Start ==
    /\ previous_tour_by_personid = [p \in UniquePersons |-> FirstAlternative(alts)]
    /\ choice_list = << >>
    /\ loop = [g |-> 1, k |-> 1]
    /\ pc = "loop"
    /\ batch = << >>
    /\ prev_cols = << >>
    /\ alt_tdd = << >>
    /\ choices = << >>
    /\ tdd = << >>
    /\ fault = ""
    /\ calls = NoCalls
    /\ assigned = << >>
    /\ pass_batches = << >>
    /\ at_start = [calls |-> NoCalls, timetable |-> timetable,
                   previous |-> previous_tour_by_personid]
    /\ avail_seen = << >>
    /\ prev_seen = << >>
    /\ picked_in_rows = TRUE

\* One call of vectorize_tour_scheduling.
OneRun ==
    [run |-> 0, population |-> tours, timetable |-> timetable, spec |-> spec,
     results |-> << >>]

Init ==
    /\ tours \in Populations
    /\ persons_merged \in SUBSET Persons
    /\ alts = WindowAlts
    /\ spec \in SpecShapes
    /\ timetable \in [Persons -> InitialOccupancy(alts)]
    /\ harness = OneRun
    /\ Start

(***************************************************************************)
(* get_previous_tour_by_tourid, tdd_interaction_dataset                    *)
(***************************************************************************)
\* tour_id -> the PREV_TOUR_COLUMNS of the alternative stored for its person
GetPreviousTourByTourid(ids, previous, a) ==
    [t \in Range(ids) |->
        [start_previous |-> AltLoc(a, previous[tours[t].person_id]).start,
         end_previous |-> AltLoc(a, previous[tours[t].person_id]).end]]

RepeatBoth(ids, a) ==
    [n \in 1..(Len(ids) * Len(a)) |->
        [tour_id |-> ids[((n - 1) \div Len(a)) + 1],
         tdd |-> AltIndex(a)[((n - 1) \div Len(ids)) + 1]]]

\* np.tile(alts.index, len(tours)) against np.repeat(tours.index, len(alts)):
\* row (i - 1) * len(alts) + j pairs tour i with the j-th index label.
CrossIds(ids, a) ==
    [n \in 1..(Len(ids) * Len(a)) |->
        [tour_id |-> ids[((n - 1) \div Len(a)) + 1],
         tdd |-> AltIndex(a)[((n - 1) % Len(a)) + 1]]]

\* alts.take(alts_ids) stays inside the table
TakeInBounds(ids, a) ==
    \A n \in DOMAIN CrossIds(ids, a) : (CrossIds(ids, a)[n].tdd + 1) \in DOMAIN a

\* alt_tdd before slicing: the taken rows, re-indexed by tour, with the choice column
CrossRows(ids, a) ==
    [n \in DOMAIN CrossIds(ids, a) |->
        [tour_id |-> CrossIds(ids, a)[n].tour_id,
         tdd |-> CrossIds(ids, a)[n].tdd,
         start |-> AltTake(a, CrossIds(ids, a)[n].tdd).start,
         end |-> AltTake(a, CrossIds(ids, a)[n].tdd).end,
         duration |-> AltTake(a, CrossIds(ids, a)[n].tdd).duration]]

\* timetable.tour_available(alt_tdd.person_id, alt_tdd[choice_column])
AvailableMask(rows, tt) ==
    [n \in DOMAIN rows |-> TourAvailable(tt, tours[rows[n].tour_id].person_id, rows[n].tdd)]

KeepAll(rows, mask) == rows

\* alt_tdd[available]
SliceAvailable(rows, mask) ==
    LET Keep(n) == IF mask[n] THEN <<rows[n]>> ELSE << >>
    IN  Flatten([n \in DOMAIN rows |-> Keep(n)])

\* the alternatives among the rows of one chooser
RowsOf(rows, t) == {rows[n].tdd : n \in {m \in DOMAIN rows : rows[m].tour_id = t}}

(***************************************************************************)
(* schedule_tours                                                          *)
(***************************************************************************)
Raise(what) ==
    /\ pc' = "fault"
    /\ fault' = what

\* tours.index, in table order
Ids ==
    LET Below(t) == Cardinality({u \in DOMAIN tours : u < t})
    IN  [i \in 1..Cardinality(DOMAIN tours) |-> CHOOSE t \in DOMAIN tours : Below(t) = i - 1]

DescendingKeys ==
    LET present == {tours[t].tour_num : t \in DOMAIN tours}
        Above(n) == Cardinality({m \in present : m > n})
    IN  [i \in 1..Cardinality(present) |-> CHOOSE n \in present : Above(n) = i - 1]

\* the sorted keys of tours.groupby('tour_num')
GroupKeys ==
    LET present == {tours[t].tour_num : t \in DOMAIN tours}
        Below(n) == Cardinality({m \in present : m < n})
    IN  [i \in 1..Cardinality(present) |-> CHOOSE n \in present : Below(n) = i - 1]

NthTours(num) == SelectSeq(Ids, LAMBDA t : tours[t].tour_num = num)

OfType(ids, ty) == SelectSeq(ids, LAMBDA t : tours[t].tour_type = ty)

LoopDone == loop.g > Len(GroupKeys)

\* the tours argument of the next schedule_tours call
NextBatch ==
    IF spec.dict THEN OfType(NthTours(GroupKeys[loop.g]), spec.keys[loop.k])
    ELSE NthTours(GroupKeys[loop.g])

NextLoop ==
    IF spec.dict /\ loop.k < Len(spec.keys)
    THEN [loop EXCEPT !.k = @ + 1]
    ELSE [g |-> loop.g + 1, k |-> 1]

AnyPerson(ids) == TRUE

\* len(tours.index) == len(np.unique(tours.person_id.values))
OnePerPerson(ids) == Len(ids) = Cardinality(Range(PersonIds(ids)))

\* pd.merge(tours, persons_merged, left_on='person_id', right_index=True)
MergePersons(ids) == SelectSeq(ids, LAMBDA t : tours[t].person_id \in persons_merged)

KeepPrevious(previous, ids, ch) == previous

OverwriteAll(previous, ids, ch) == [p \in DOMAIN previous |-> ch[1][2]]

\* previous_tour_by_personid.loc[tours.person_id] = choices.values
CommitPrevious(previous, ids, ch) ==
    [p \in DOMAIN previous |->
        IF \E i \in DOMAIN ids : tours[ids[i]].person_id = p
        THEN ch[CHOOSE i \in DOMAIN ids : tours[ids[i]].person_id = p][2]
        ELSE previous[p]]

\* the (person, alternative) pairs of timetable.assign(tours.person_id, choices)
AssignPairs(ids, ch) == [i \in DOMAIN ch |-> <<tours[ids[i]].person_id, ch[i][2]>>]

Locals == << batch, prev_cols, alt_tdd, choices >>
Inputs == << tours, harness, persons_merged, alts, spec >>
Shared == << timetable, previous_tour_by_personid, choice_list, tdd >>
Seen == << assigned, pass_batches, at_start, avail_seen, prev_seen, picked_in_rows >>

CallUnlessEmpty ==
    /\ pc = "loop"
    /\ ~LoopDone
    /\ IF NextBatch = << >>
       THEN /\ loop' = NextLoop
            /\ UNCHANGED << batch, pass_batches, at_start, pc >>
       ELSE /\ batch' = NextBatch
            /\ pass_batches' = Append(pass_batches, NextBatch)
            /\ at_start' = [calls |-> calls, timetable |-> timetable,
                            previous |-> previous_tour_by_personid]
            /\ pc' = "check"
            /\ loop' = loop
    /\ UNCHANGED << Inputs, Shared, prev_cols, alt_tdd, choices, fault, calls,
                    assigned, avail_seen, prev_seen, picked_in_rows >>

\* lines 216-242: the next iteration calls schedule_tours
CallScheduleTours ==
    /\ pc = "loop"
    /\ ~LoopDone
    /\ batch' = NextBatch
    /\ pass_batches' = Append(pass_batches, NextBatch)
    /\ at_start' = [calls |-> calls, timetable |-> timetable,
                    previous |-> previous_tour_by_personid]
    /\ pc' = "check"
    /\ UNCHANGED << Inputs, Shared, loop, prev_cols, alt_tdd, choices, fault, calls,
                    assigned, avail_seen, prev_seen, picked_in_rows >>

CheckOrRollBack ==
    /\ pc = "check"
    /\ IF OnePerPerson(batch)
       THEN /\ pc' = "merge"
            /\ fault' = fault
            /\ UNCHANGED << timetable, previous_tour_by_personid >>
       ELSE /\ Raise("AssertionError:115")
            /\ timetable' = harness.timetable
            /\ previous_tour_by_personid' =
                  [p \in DOMAIN previous_tour_by_personid |-> FirstAlternative(alts)]
    /\ UNCHANGED << Inputs, choice_list, tdd, loop, Locals, calls, Seen >>

\* line 115
CheckOnePerPerson ==
    /\ pc = "check"
    /\ IF OnePerPerson(batch)
       THEN pc' = "merge" /\ fault' = fault
       ELSE Raise("AssertionError:115")
    /\ UNCHANGED << Inputs, Shared, loop, Locals, calls, Seen >>

\* line 118
Merge ==
    /\ pc = "merge"
    /\ batch' = MergePersons(batch)
    /\ pc' = "prevjoin"
    /\ UNCHANGED << Inputs, Shared, loop, prev_cols, alt_tdd, choices, fault, calls, Seen >>

\* lines 121-123
JoinPrevious ==
    /\ pc = "prevjoin"
    /\ prev_cols' = GetPreviousTourByTourid(batch, previous_tour_by_personid, alts)
    /\ prev_seen' = [t \in DOMAIN prev_seen \cup Range(batch) |->
                        IF t \in Range(batch)
                        THEN [cols |-> prev_cols'[t], at |-> Len(assigned)]
                        ELSE prev_seen[t]]
    /\ pc' = "interact"
    /\ UNCHANGED << Inputs, Shared, loop, batch, alt_tdd, choices, fault, calls,
                    assigned, pass_batches, at_start, avail_seen, picked_in_rows >>

\* line 129: tdd_interaction_dataset, lines 85-104
Interact ==
    /\ pc = "interact"
    /\ IF ~TakeInBounds(batch, alts)
       THEN /\ Raise("IndexError:89")
            /\ UNCHANGED << alt_tdd, calls, avail_seen >>
       ELSE LET rows == CrossRows(batch, alts)
                mask == AvailableMask(rows, timetable)
            IN  /\ calls' = [calls EXCEPT !.tour_available = @ + 1]
                /\ avail_seen' =
                      [t \in DOMAIN avail_seen \cup Range(batch) |->
                          IF t \in Range(batch)
                          THEN {l \in Range(AltIndex(alts)) :
                                  TourAvailable(timetable, tours[t].person_id, l)}
                          ELSE avail_seen[t]]
                /\ IF \E n \in DOMAIN mask : mask[n]
                   THEN /\ alt_tdd' = SliceAvailable(rows, mask)
                        /\ pc' = "simulate"
                        /\ fault' = fault
                   ELSE /\ Raise("AssertionError:97")
                        /\ alt_tdd' = alt_tdd
    /\ UNCHANGED << Inputs, Shared, loop, batch, prev_cols, choices, assigned,
                    pass_batches, at_start, prev_seen, picked_in_rows >>

(***************************************************************************)
(* The choice evaluator (activitysim.core.interaction_sample_simulate):    *)
(* one choice per chooser, taken from the chooser's rows of alt_tdd.  What *)
(* it does with a chooser that has no row is not defined by its contract:  *)
(* it may raise, leave the chooser out, or return any alternative for it.  *)
(***************************************************************************)
Rowless(ids, rows) == {t \in Range(ids) : RowsOf(rows, t) = {}}

\* the Series an evaluator returns for the choosers ids, one pick each
Picks(ids, rows, free) ==
    { [i \in DOMAIN ids |-> <<ids[i], f[i]>>] :
        f \in { g \in [DOMAIN ids -> Range(AltIndex(alts))] :
                  \A i \in DOMAIN ids :
                      g[i] \in RowsOf(rows, ids[i]) \/ (free /\ ids[i] \in Rowless(ids, rows)) } }

SimulateStep(ch) ==
    /\ choices' = ch
    /\ calls' = [calls EXCEPT !.simulate = @ + 1]
    /\ pc' = "commit"
    /\ fault' = fault

\* lines 137-145, the evaluator keeps its contract
Simulate ==
    /\ pc = "simulate"
    /\ Rowless(batch, alt_tdd) = {}
    /\ \E ch \in Picks(batch, alt_tdd, FALSE) : SimulateStep(ch)
    /\ UNCHANGED << Inputs, Shared, loop, batch, prev_cols, alt_tdd, Seen >>

\* lines 137-145, the evaluator returns fewer choices than choosers
SimulateShort ==
    /\ pc = "simulate"
    /\ LET answered == IF Rowless(batch, alt_tdd) = {}
                       THEN SubSeq(batch, 1, Len(batch) - 1)
                       ELSE SelectSeq(batch, LAMBDA t : t \notin Rowless(batch, alt_tdd))
       IN  \E ch \in Picks(answered, alt_tdd, FALSE) : SimulateStep(ch)
    /\ UNCHANGED << Inputs, Shared, loop, batch, prev_cols, alt_tdd, Seen >>

\* lines 137-145, the evaluator raises on a chooser without rows
SimulateRaises ==
    /\ pc = "simulate"
    /\ Rowless(batch, alt_tdd) # {}
    /\ Raise("evaluator")
    /\ calls' = [calls EXCEPT !.simulate = @ + 1]
    /\ UNCHANGED << Inputs, Shared, loop, Locals, Seen >>

\* lines 137-145, the evaluator answers a chooser without rows anyway
SimulateArbitrary ==
    /\ pc = "simulate"
    /\ Rowless(batch, alt_tdd) # {}
    /\ \E ch \in Picks(batch, alt_tdd, TRUE) : SimulateStep(ch)
    /\ picked_in_rows' = FALSE
    /\ UNCHANGED << Inputs, Shared, loop, batch, prev_cols, alt_tdd, assigned,
                    pass_batches, at_start, avail_seen, prev_seen >>

CommitUnchecked ==
    /\ pc = "commit"
    /\ previous_tour_by_personid' =
          [p \in DOMAIN previous_tour_by_personid |->
              IF \E i \in DOMAIN choices : tours[choices[i][1]].person_id = p
              THEN choices[CHOOSE i \in DOMAIN choices : tours[choices[i][1]].person_id = p][2]
              ELSE previous_tour_by_personid[p]]
    /\ calls' = [calls EXCEPT !.prev_write = @ + 1]
    /\ pc' = "assign"
    /\ fault' = fault
    /\ UNCHANGED << Inputs, timetable, choice_list, tdd, loop, Locals, Seen >>

\* line 147: a list-like indexer and a value of another length raise ValueError
CommitPreviousTour ==
    /\ pc = "commit"
    /\ IF Len(choices) # Len(batch)
       THEN /\ Raise("ValueError:147")
            /\ UNCHANGED << previous_tour_by_personid, calls >>
       ELSE /\ previous_tour_by_personid' =
                    CommitPrevious(previous_tour_by_personid, batch, choices)
            /\ calls' = [calls EXCEPT !.prev_write = @ + 1]
            /\ pc' = "assign"
            /\ fault' = fault
    /\ UNCHANGED << Inputs, timetable, choice_list, tdd, loop, Locals, Seen >>

AssignAndReplaceTable ==
    /\ pc = "assign"
    /\ timetable' = AssignAll(timetable, AssignPairs(batch, choices))
    /\ assigned' = assigned \o AssignPairs(batch, choices)
    /\ calls' = [calls EXCEPT !.assign = @ + 1, !.replace_table = @ + 1]
    /\ choice_list' = Append(choice_list, choices)
    /\ loop' = NextLoop
    /\ pc' = "loop"
    /\ batch' = << >>
    /\ prev_cols' = << >>
    /\ alt_tdd' = << >>
    /\ choices' = << >>
    /\ UNCHANGED << Inputs, previous_tour_by_personid, tdd, fault, pass_batches,
                    at_start, avail_seen, prev_seen, picked_in_rows >>

\* lines 149-151, and choice_list.append(choices) of the caller
Assign ==
    /\ pc = "assign"
    /\ timetable' = AssignAll(timetable, AssignPairs(batch, choices))
    /\ assigned' = assigned \o AssignPairs(batch, choices)
    /\ calls' = [calls EXCEPT !.assign = @ + 1]
    /\ choice_list' = Append(choice_list, choices)
    /\ loop' = NextLoop
    /\ pc' = "loop"
    /\ batch' = << >>
    /\ prev_cols' = << >>
    /\ alt_tdd' = << >>
    /\ choices' = << >>
    /\ UNCHANGED << Inputs, previous_tour_by_personid, tdd, fault, pass_batches,
                    at_start, avail_seen, prev_seen, picked_in_rows >>

(***************************************************************************)
(* vectorize_tour_scheduling, after the loop                               *)
(***************************************************************************)
ExpandFirstRow(ch, a) ==
    [i \in DOMAIN ch |->
        [tour_id |-> ch[i][1],
         start |-> a[1].start,
         end |-> a[1].end,
         duration |-> a[1].duration,
         tdd |-> ch[i][2]]]

\* alts.loc[choices], re-indexed by tour, with the tdd column
ExpandChoices(ch, a) ==
    [i \in DOMAIN ch |->
        [tour_id |-> ch[i][1],
         start |-> AltLoc(a, ch[i][2]).start,
         end |-> AltLoc(a, ch[i][2]).end,
         duration |-> AltLoc(a, ch[i][2]).duration,
         tdd |-> ch[i][2]]]

\* lines 246-252
Expand ==
    /\ pc = "loop"
    /\ LoopDone
    /\ IF choice_list = << >>
       THEN Raise("ValueError:246") /\ tdd' = tdd
       ELSE IF \E c \in Range(Flatten(choice_list)) : c[2] \notin Range(AltIndex(alts))
       THEN Raise("KeyError:249") /\ tdd' = tdd
       ELSE /\ tdd' = ExpandChoices(Flatten(choice_list), alts)
            /\ pc' = "finalize"
            /\ fault' = fault
    /\ UNCHANGED << Inputs, timetable, previous_tour_by_personid, choice_list, loop,
                    Locals, calls, Seen >>

\* lines 254-256
ReplaceTable ==
    /\ pc = "finalize"
    /\ calls' = [calls EXCEPT !.replace_table = @ + 1]
    /\ pc' = "done"
    /\ UNCHANGED << Inputs, Shared, loop, Locals, fault, Seen >>

Next ==
    \/ CallScheduleTours
    \/ CheckOnePerPerson
    \/ Merge
    \/ JoinPrevious
    \/ Interact
    \/ Simulate
    \/ SimulateShort
    \/ SimulateRaises
    \/ SimulateArbitrary
    \/ CommitPreviousTour
    \/ Assign
    \/ Expand
    \/ ReplaceTable

Spec == Init /\ [][Next]_vars

(***************************************************************************)
(* The two-person scenario: P1 with a commute tour (tour_num 1) and an     *)
(* errand tour (tour_num 2), P2 with a commute tour, four half-day slots,  *)
(* an empty timetable; the spec is one frame or a dict keyed by commute    *)
(* and errand.                                                             *)
(***************************************************************************)
ScenarioTours ==
    << [person_id |-> 1, tour_num |-> 1, tour_type |-> "commute"],
       [person_id |-> 1, tour_num |-> 2, tour_type |-> "errand"],
       [person_id |-> 2, tour_num |-> 1, tour_type |-> "commute"] >>

ScenarioInit ==
    /\ tours = ScenarioTours
    /\ persons_merged = Persons
    /\ alts = HalfDayAlts
    /\ spec \in {sh \in SpecShapes : ~sh.dict \/ Len(sh.keys) = 2}
    /\ timetable = [p \in Persons |-> {}]
    /\ harness = OneRun
    /\ Start

\* No person of the scenario has more tours than there are disjoint slots, so
\* every chooser has rows: SimulateRaises and SimulateArbitrary are never
\* enabled and are left out.
ScenarioNext ==
    \/ CallScheduleTours
    \/ CheckOnePerPerson
    \/ Merge
    \/ JoinPrevious
    \/ Interact
    \/ Simulate
    \/ SimulateShort
    \/ CommitPreviousTour
    \/ Assign
    \/ Expand
    \/ ReplaceTable

ScenarioSpec == ScenarioInit /\ [][ScenarioNext]_vars

(***************************************************************************)
(* Category comparison: a caller runs vectorize_tour_scheduling four times *)
(* from the same timetable, with an evaluator that is a function of the    *)
(* chooser's rows, its previous-tour columns and the spec: the whole       *)
(* population with a dict of specs, the same with the dict's keys in the   *)
(* other order, the commute tours alone with the commute spec, the errand  *)
(* tours alone with the errand spec.  A run that raises ends the           *)
(* comparison.                                                             *)
(***************************************************************************)
Frames == {"earliest", "latest", "after_previous"}

MinOf(S) == CHOOSE x \in S : \A y \in S : x <= y

MaxOf(S) == CHOOSE x \in S : \A y \in S : y <= x

\* the alternative a spec picks among the rows of a chooser
Pick(frame, rows, prev) ==
    LET later == {l \in rows : AltLoc(alts, l).start >= prev.end_previous}
    IN  CASE frame = "earliest" -> MinOf(rows)
          [] frame = "latest" -> MaxOf(rows)
          [] OTHER -> IF later # {} THEN MinOf(later) ELSE MaxOf(rows)

FirstSpec == spec.frames[1]

\* the spec argument of the schedule_tours call: spec[tour_type], or spec
CurrentSpec == IF spec.dict THEN spec.frames[loop.k] ELSE spec.frames[1]

\* lines 137-145 with the evaluator of the comparison
SimulateBySpec ==
    /\ pc = "simulate"
    /\ calls' = [calls EXCEPT !.simulate = @ + 1]
    /\ IF Rowless(batch, alt_tdd) # {}
       THEN Raise("evaluator") /\ choices' = choices
       ELSE /\ choices' = [i \in DOMAIN batch |->
                              <<batch[i], Pick(CurrentSpec, RowsOf(alt_tdd, batch[i]),
                                               prev_cols[batch[i]])>>]
            /\ pc' = "commit"
            /\ fault' = fault
    /\ UNCHANGED << Inputs, Shared, loop, batch, prev_cols, alt_tdd, Seen >>

\* what a run returned: its <<tour_id, tdd>> pairs
Outcome == {<<tdd[i].tour_id, tdd[i].tdd>> : i \in DOMAIN tdd}

Subset(ty) ==
    [t \in {u \in DOMAIN harness.population : harness.population[u].tour_type = ty} |->
        harness.population[t]]

Reversed(sp) ==
    [sp EXCEPT !.keys = <<sp.keys[2], sp.keys[1]>>, !.frames = <<sp.frames[2], sp.frames[1]>>]

OneFrame(sp, k) == [dict |-> FALSE, keys |-> << >>, frames |-> <<sp.frames[k]>>]

RunTours(n) ==
    CASE n = 3 -> Subset(harness.spec.keys[1])
      [] n = 4 -> Subset(harness.spec.keys[2])
      [] OTHER -> harness.population

RunSpec(n) ==
    CASE n = 2 -> Reversed(harness.spec)
      [] n = 3 -> OneFrame(harness.spec, 1)
      [] n = 4 -> OneFrame(harness.spec, 2)
      [] OTHER -> harness.spec

\* the caller keeps the result and calls again, from the same timetable
NextRun ==
    /\ pc = "done"
    /\ harness.run \in 1..3
    /\ RunTours(harness.run + 1) # << >>
    /\ harness' = [harness EXCEPT !.run = @ + 1, !.results = Append(@, Outcome)]
    /\ tours' = RunTours(harness.run + 1)
    /\ spec' = RunSpec(harness.run + 1)
    /\ timetable' = harness.timetable
    /\ previous_tour_by_personid' =
          [p \in {tours'[t].person_id : t \in DOMAIN tours'} |-> FirstAlternative(alts)]
    /\ choice_list' = << >>
    /\ loop' = [g |-> 1, k |-> 1]
    /\ pc' = "loop"
    /\ tdd' = << >>
    /\ calls' = NoCalls
    /\ assigned' = << >>
    /\ pass_batches' = << >>
    /\ at_start' = [calls |-> NoCalls, timetable |-> timetable',
                    previous |-> previous_tour_by_personid']
    /\ avail_seen' = << >>
    /\ prev_seen' = << >>
    /\ UNCHANGED << persons_merged, alts, Locals, fault, picked_in_rows >>

CategoryInit ==
    /\ tours \in {s \in PopulationsUpTo(MaxCategoryTours) :
                    \A ty \in TourTypes : \E t \in DOMAIN s : s[t].tour_type = ty}
    /\ persons_merged = Persons
    /\ alts = WindowAlts
    /\ spec \in {[dict |-> TRUE, keys |-> <<"commute", "errand">>, frames |-> <<a, b>>] :
                    a \in Frames, b \in Frames}
    /\ timetable \in [Persons -> InitialOccupancy(alts)]
    /\ harness = [OneRun EXCEPT !.run = 1]
    /\ Start

CategoryNext ==
    \/ CallScheduleTours
    \/ CheckOnePerPerson
    \/ Merge
    \/ JoinPrevious
    \/ Interact
    \/ SimulateBySpec
    \/ CommitPreviousTour
    \/ Assign
    \/ Expand
    \/ ReplaceTable
    \/ NextRun

CategorySpec == CategoryInit /\ [][CategoryNext]_vars

(***************************************************************************)
(* Properties                                                              *)
(***************************************************************************)
\* every <<tour_id, tdd>> of the passes that have returned
Returned == Flatten(choice_list)

InPass == pc \in {"check", "merge", "prevjoin", "interact", "simulate", "commit", "assign"}

PastCheck == pc \in {"merge", "prevjoin", "interact", "simulate", "commit", "assign"}

PastMerge == pc \in {"prevjoin", "interact", "simulate", "commit", "assign"}

CurrentArgument == pass_batches[Len(pass_batches)]

NoSharedPerson(ids) ==
    \A i, j \in DOMAIN ids : i # j => tours[ids[i]].person_id # tours[ids[j]].person_id

RowsFor(t) == {i \in DOMAIN tdd : tdd[i].tour_id = t}

\* C1: a run that returns has every input tour exactly once in the index of
\* the returned table, and nothing else.
Completeness ==
    pc = "done" =>
        /\ \A t \in DOMAIN tours : Cardinality(RowsFor(t)) = 1
        /\ \A i \in DOMAIN tdd : tdd[i].tour_id \in DOMAIN tours

\* C2: a pass in which tour_available left some tour of the batch without
\* any alternative raises instead of returning.
InfeasibilityDetection ==
    \A n \in 1..Len(choice_list) :
        \A t \in Range(pass_batches[n]) \cap DOMAIN avail_seen : avail_seen[t] # {}

\* C3: with an evaluator that picks among the rows it is handed, every
\* returned choice is an alternative tour_available reported for the tour's
\* person in the query of its pass, in the choices and in the returned table.
AvailabilityEnforcement ==
    picked_in_rows =>
        /\ \A c \in Range(Returned) : c[2] \in avail_seen[c[1]]
        /\ \A i \in DOMAIN tdd : tdd[i].tdd \in avail_seen[tdd[i].tour_id]

AvailabilityWitness ==
    /\ pc = "done"
    /\ picked_in_rows
    /\ \E i \in DOMAIN tdd :
          /\ Cardinality(avail_seen[tdd[i].tour_id]) = 1
          /\ tdd[i].tdd \in avail_seen[tdd[i].tour_id]
    /\ \E i \in DOMAIN tdd : Cardinality(avail_seen[tdd[i].tour_id]) > 1

\* the assign calls for the person of tour t made before t's previous-tour join
EarlierAssigned(t) ==
    {j \in 1..prev_seen[t].at : assigned[j][1] = tours[t].person_id}

LastAssigned(t) ==
    assigned[CHOOSE j \in EarlierAssigned(t) : \A k \in EarlierAssigned(t) : k <= j][2]

\* C4: a tour with tour_num >= 2 whose person had a tour scheduled before it
\* is given the start and end of the alternative chosen and assigned for
\* that person's most recently scheduled tour as start_previous, end_previous.
OrderingDependency ==
    \A t \in DOMAIN prev_seen :
        (tours[t].tour_num >= 2 /\ EarlierAssigned(t) # {}) =>
            /\ prev_seen[t].cols.start_previous = AltLoc(alts, LastAssigned(t)).start
            /\ prev_seen[t].cols.end_previous = AltLoc(alts, LastAssigned(t)).end

OrderingWitness ==
    \E t \in DOMAIN prev_seen :
        /\ tours[t].tour_num = 2
        /\ EarlierAssigned(t) # {}
        /\ LastAssigned(t) # AltIndex(alts)[1]
        /\ prev_seen[t].cols.start_previous = AltLoc(alts, LastAssigned(t)).start
        /\ prev_seen[t].cols.start_previous # AltLoc(alts, AltIndex(alts)[1]).start
        /\ \E u \in DOMAIN tours :
              tours[u].person_id = tours[t].person_id /\ tours[u].tour_num = 1

\* C6: a pass whose batch holds a tour of a person with no row in the
\* persons table raises; it does not go on with the other tours.
MissingPersonFatal ==
    PastMerge =>
        \A t \in Range(CurrentArgument) : tours[t].person_id \in persons_merged

\* C7: a pass that is past line 115, or has returned, was given at most one
\* tour per person; a pass given two tours of one person stops at line 115
\* with the assertion, having made no timetable query, evaluator call,
\* previous-tour write or assign.
PerPersonExclusivity ==
    /\ \A n \in 1..Len(choice_list) : NoSharedPerson(pass_batches[n])
    /\ PastCheck => NoSharedPerson(CurrentArgument)
    /\ ((InPass \/ pc = "fault") /\ pass_batches # << >>
            /\ ~NoSharedPerson(CurrentArgument)) =>
          /\ pc \in {"check", "fault"}
          /\ pc = "fault" => fault = "AssertionError:115"
          /\ calls = at_start.calls
          /\ timetable = at_start.timetable
          /\ previous_tour_by_personid = at_start.previous

ExclusivityWitness ==
    /\ pc = "fault"
    /\ fault = "AssertionError:115"
    /\ ~NoSharedPerson(CurrentArgument)
    /\ calls.assign >= 1
    /\ calls.tour_available >= 1

\* the alternatives returned for the tours of person p, one entry per tour
ChosenOf(p) == SelectSeq(Returned, LAMBDA c : tours[c[1]].person_id = p)

\* C5: starting from an empty timetable no person is given the same or
\* overlapping alternatives for two tours, and the scenario is scheduled
\* whole: unless the evaluator breaks its contract the run returns three
\* rows, P1's two tours in distinct slots.
NoOverlapPerPerson ==
    /\ \A p \in Persons : \A i, j \in DOMAIN ChosenOf(p) :
          i # j => ~Overlaps(AltLoc(alts, ChosenOf(p)[i][2]), AltLoc(alts, ChosenOf(p)[j][2]))
    /\ (pc = "fault" => fault = "ValueError:147")
    /\ (pc = "done" =>
          /\ Len(tdd) = 3
          /\ \A t \in DOMAIN tours : Cardinality(RowsFor(t)) = 1
          /\ \A i, j \in DOMAIN tdd :
                (tdd[i].tour_id = 1 /\ tdd[j].tour_id = 2) => tdd[i].tdd # tdd[j].tdd)

\* the result of run n of the comparison, once run n has returned
ResultOf(n) == IF n = harness.run THEN Outcome ELSE harness.results[n]

RunReturned(n) == harness.run > n \/ (harness.run = n /\ pc = "done")

\* some person has tours of both categories / in one tour_num group
PersonInBoth ==
    \E t, u \in DOMAIN harness.population :
        /\ harness.population[t].person_id = harness.population[u].person_id
        /\ harness.population[t].tour_type # harness.population[u].tour_type

PersonInBothOfGroup ==
    \E t, u \in DOMAIN harness.population :
        /\ harness.population[t].person_id = harness.population[u].person_id
        /\ harness.population[t].tour_type # harness.population[u].tour_type
        /\ harness.population[t].tour_num = harness.population[u].tour_num

\* runs 2, 3 and 4 return what run 1 returned for their tours
AgreesWithFirst ==
    /\ RunReturned(2) => ResultOf(2) = ResultOf(1)
    /\ RunReturned(3) => ResultOf(3) \subseteq ResultOf(1)
    /\ RunReturned(4) => ResultOf(3) \cup ResultOf(4) = ResultOf(1)

\* C8 as claimed: when the run with the dict of specs returns, so do the run
\* with the keys in the other order and the runs of the two category subsets,
\* with the same alternative for every tour, also when a person has tours
\* of both categories.
CategoryIndependence ==
    /\ (pc = "fault" => harness.run = 1)
    /\ AgreesWithFirst

\* C8 amended: the order of the keys does not matter when no person has tours
\* of both categories in one tour_num group, and the category subsets alone
\* give the same choices when no person has tours of both categories.
CategoryIndependenceDisjoint ==
    /\ ~PersonInBothOfGroup =>
          /\ (pc = "fault" => harness.run # 2)
          /\ RunReturned(2) => ResultOf(2) = ResultOf(1)
    /\ ~PersonInBoth =>
          /\ (pc = "fault" => harness.run = 1)
          /\ AgreesWithFirst

CategoryWitness ==
    /\ harness.run = 4
    /\ pc = "done"
    /\ ~PersonInBoth
    /\ ResultOf(3) \cup ResultOf(4) = ResultOf(1)
    /\ ResultOf(2) = ResultOf(1)
    /\ ResultOf(3) # {} /\ ResultOf(4) # {}
    /\ \E c, d \in ResultOf(1) :
          /\ c[1] # d[1]
          /\ harness.population[c[1]].person_id = harness.population[d[1]].person_id
          /\ c[2] # d[2]

Count(s, x) == Cardinality({i \in DOMAIN s : s[i] = x})

\* C9: every pass that returned called assign once, and when the run returns
\* the pairs assigned are, with multiplicity, the (person, chosen
\* alternative) pairs of all input tours.
TimetableReflectsAll ==
    /\ calls.assign = Len(choice_list)
    /\ pc = "done" =>
          /\ \A t \in DOMAIN tours : Cardinality(RowsFor(t)) = 1
          /\ \A p \in Persons : \A l \in Range(AltIndex(alts)) :
                Count(assigned, <<p, l>>) =
                    Cardinality({t \in DOMAIN tours :
                                    /\ tours[t].person_id = p
                                    /\ \E i \in RowsFor(t) : tdd[i].tdd = l})

\* C10: replace_table has been called once when the run has returned, and
\* not at all before line 254 or in a run that raised; when line 254 is
\* reached every pass has returned and assigned.
FinalizeExactlyOnce ==
    /\ calls.replace_table = (IF pc = "done" THEN 1 ELSE 0)
    /\ pc \in {"finalize", "done"} =>
          /\ LoopDone
          /\ Len(choice_list) = Len(pass_batches)
          /\ calls.assign = Len(pass_batches)
          /\ tdd # << >>

FinalizeWitness ==
    /\ pc = "done"
    /\ calls.replace_table = 1
    /\ Len(pass_batches) >= 2

\* passes made per tour_num group: one, or one per key of the dict
PassesPerGroup == IF spec.dict THEN Len(spec.keys) ELSE 1

BeforeOwnCommit == pc \in {"check", "merge", "prevjoin", "interact", "simulate", "commit"}

\* C11: passes are started in ascending tour_num order, and while a pass is
\* at its previous-tour lookup or its tour_available query every pass of the
\* lower tour_num groups (every earlier pass) has been made, has written
\* previous_tour_by_personid and has called timetable.assign.
SequentialGroups ==
    /\ \A n, m \in DOMAIN pass_batches :
          n < m => \A t \in Range(pass_batches[n]) : \A u \in Range(pass_batches[m]) :
                      tours[t].tour_num <= tours[u].tour_num
    /\ BeforeOwnCommit =>
          /\ Len(pass_batches) = (loop.g - 1) * PassesPerGroup + loop.k
          /\ \A t \in Range(CurrentArgument) :
                Cardinality({n \in {tours[u].tour_num : u \in DOMAIN tours} :
                                n < tours[t].tour_num}) = loop.g - 1
          /\ calls.prev_write = Len(pass_batches) - 1
          /\ calls.assign = Len(pass_batches) - 1
          /\ Len(choice_list) = Len(pass_batches) - 1

SequentialWitness ==
    /\ pc = "interact"
    /\ Len(pass_batches) = 2
    /\ \E t \in Range(pass_batches[1]) : tours[t].tour_num = 1
    /\ \E u \in Range(CurrentArgument) :
          /\ tours[u].tour_num = 2
          /\ \E t \in Range(pass_batches[1]) : tours[t].person_id = tours[u].person_id
    /\ calls.prev_write = 1
    /\ calls.assign = 1

\* C12: the returned table has one row per returned choice, in order; the
\* row carries the tour id as its index and the chosen alternative as tdd,
\* and its start, end and duration are those of the row of the alternatives
\* table with that index label.
ExpansionIsLookup ==
    pc \in {"finalize", "done"} =>
        /\ Len(tdd) = Len(Returned)
        /\ \A i \in DOMAIN tdd :
              /\ tdd[i].tour_id = Returned[i][1]
              /\ tdd[i].tour_id \in DOMAIN tours
              /\ tdd[i].tdd = Returned[i][2]
              /\ \E j \in DOMAIN alts :
                    /\ alts[j].id = tdd[i].tdd
                    /\ tdd[i].start = alts[j].start
                    /\ tdd[i].end = alts[j].end
                    /\ tdd[i].duration = alts[j].duration

ExpansionWitness ==
    /\ pc = "done"
    /\ \E i, k \in DOMAIN tdd :
          /\ tdd[i].tdd = 2 /\ tdd[i].duration = 8
          /\ tdd[k].tdd = 1 /\ tdd[k].start = 4
          /\ tdd[i].tour_id # tdd[k].tour_id

\* the exceptions raised inside schedule_tours
PassFaults == {"AssertionError:115", "IndexError:89", "AssertionError:97", "evaluator",
               "ValueError:147"}

\* C13: a run that raised has returned no table and called no replace_table;
\* when the exception came from a pass that pass is the last one started, it
\* has not been started again and has neither written nor assigned; and no
\* pass returns without a choice for a tour it was given: a tour that cannot
\* be scheduled (its person is missing from the persons table) makes the
\* pass raise, it is not left out.
FaultPropagation ==
    /\ pc = "fault" =>
          /\ tdd = << >>
          /\ calls.replace_table = 0
          /\ fault \in PassFaults =>
                /\ Len(pass_batches) = Len(choice_list) + 1
                /\ calls.assign = Len(choice_list)
                /\ calls.prev_write = Len(choice_list)
                /\ \A n \in 1..Len(choice_list) : pass_batches[n] # CurrentArgument
    /\ \A n \in 1..Len(choice_list) :
          \A t \in Range(pass_batches[n]) : \E c \in Range(choice_list[n]) : c[1] = t

\* the persons given a choice by the pass that is at its commit
ChosenPersons == {tours[choices[i][1]].person_id : i \in DOMAIN choices}

\* C14: previous_tour_by_personid is keyed by the distinct persons of the
\* tours table in every state; only the write of line 147 changes it, the
\* previous-tour lookup does not; the write gives every person of the
\* pass's choosers the alternative just chosen for their tour and leaves
\* the entry of every other person as it was.
PreviousTourFrame ==
    [][ /\ DOMAIN previous_tour_by_personid = UniquePersons
        /\ DOMAIN previous_tour_by_personid' = UniquePersons
        /\ previous_tour_by_personid' # previous_tour_by_personid =>
              pc = "commit" /\ pc' = "assign"
        /\ pc = "prevjoin" =>
              /\ previous_tour_by_personid' = previous_tour_by_personid
              /\ DOMAIN prev_cols' = Range(batch)
        /\ (pc = "commit" /\ pc' = "assign") =>
              /\ ChosenPersons = Range(PersonIds(batch))
              /\ \A i \in DOMAIN choices :
                    previous_tour_by_personid'[tours[choices[i][1]].person_id]
                        = choices[i][2]
              /\ \A p \in UniquePersons \ ChosenPersons :
                    previous_tour_by_personid'[p] = previous_tour_by_personid[p]
      ]_vars

PreviousTourWitness ==
    /\ pc = "assign"
    /\ Len(pass_batches) = 2
    /\ \E p \in UniquePersons \ ChosenPersons :
          /\ previous_tour_by_personid[p] # AltIndex(alts)[1]
          /\ previous_tour_by_personid[p] = at_start.previous[p]
    /\ \E i \in DOMAIN choices :
          /\ previous_tour_by_personid[tours[choices[i][1]].person_id] = choices[i][2]
          /\ at_start.previous[tours[choices[i][1]].person_id] # choices[i][2]

\* the (tour, alternative) pairs the timetable reports available for the batch
AvailablePairs ==
    {<<t, l>> \in Range(batch) \X Range(AltIndex(alts)) :
        TourAvailable(timetable, tours[t].person_id, l)}

SentinelInitialization ==
    /\ pass_batches = << >> =>
          /\ DOMAIN previous_tour_by_personid = {tours[t].person_id : t \in DOMAIN tours}
          /\ \A p \in DOMAIN previous_tour_by_personid :
                previous_tour_by_personid[p] = alts[1].id
    /\ pc = "prevjoin" =>
          \A t \in Range(batch) :
              /\ tours[t].person_id \in DOMAIN previous_tour_by_personid
              /\ \E j \in DOMAIN alts :
                    alts[j].id = previous_tour_by_personid[tours[t].person_id]
    /\ PastMerge /\ pc # "prevjoin" => DOMAIN prev_cols = Range(batch)
    /\ \A t \in DOMAIN prev_seen :
          EarlierAssigned(t) = {} =>
              /\ prev_seen[t].cols.start_previous = alts[1].start
              /\ prev_seen[t].cols.end_previous = alts[1].end

SentinelWitness ==
    /\ pc = "interact"
    /\ Len(assigned) >= 1
    /\ \E p \in DOMAIN previous_tour_by_personid :
          previous_tour_by_personid[p] # alts[1].id
    /\ \E t \in Range(batch) :
          /\ tours[t].tour_num = 2
          /\ EarlierAssigned(t) = {}
          /\ prev_seen[t].cols.end_previous = alts[1].end
          /\ prev_seen[t].cols.end_previous # alts[Len(alts)].end

\* C17: a pass goes past line 147 only with as many choices as choosers;
\* when the evaluator has returned another number the run ends at line 147
\* with previous_tour_by_personid and the timetable as they were when the
\* pass began, no write made and assign not called.
EvaluatorMismatchFatal ==
    /\ pc = "assign" => Len(choices) = Len(batch)
    /\ \A n \in 1..Len(choice_list) :
          Len(choice_list[n]) =
              Cardinality({t \in Range(pass_batches[n]) :
                              tours[t].person_id \in persons_merged})
    /\ (/\ pc = "fault"
        /\ calls.simulate = at_start.calls.simulate + 1
        /\ fault # "evaluator"
        /\ Len(choices) # Len(batch)) =>
          /\ fault = "ValueError:147"
          /\ previous_tour_by_personid = at_start.previous
          /\ timetable = at_start.timetable
          /\ calls.prev_write = at_start.calls.prev_write
          /\ calls.assign = at_start.calls.assign
          /\ Len(choice_list) = Len(pass_batches) - 1

EvaluatorMismatchWitness ==
    /\ pc = "fault"
    /\ fault = "ValueError:147"
    /\ Len(batch) = 2
    /\ Len(choices) = 1
    /\ calls.assign >= 1
    /\ \E p \in DOMAIN previous_tour_by_personid :
          previous_tour_by_personid[p] # alts[1].id

\* the tour_num values of the tours table, and the place of one among them
PresentTourNums == {tours[t].tour_num : t \in DOMAIN tours}

TourNumRank(num) == Cardinality({m \in PresentTourNums : m < num}) + 1

\* the tours of the n-th pass of a run with a dict of specs
SubgroupOfPass(n) ==
    {t \in DOMAIN tours :
        /\ tours[t].tour_type = spec.keys[((n - 1) % Len(spec.keys)) + 1]
        /\ TourNumRank(tours[t].tour_num) = ((n - 1) \div Len(spec.keys)) + 1}

\* C18: with a dict of specs the n-th pass is given the tours of one tour_num
\* group and one key, group after group and key after key, also when there
\* are none; a pass given no tours raises at line 97 and no pass given no
\* tours gets past it; so a run that returns has made one pass for every
\* key in every tour_num group, and every key has a tour in every group.
EmptySubgroupFails ==
    spec.dict =>
        /\ \A n \in DOMAIN pass_batches : Range(pass_batches[n]) = SubgroupOfPass(n)
        /\ \A n \in 1..Len(choice_list) : pass_batches[n] # << >>
        /\ pc \in {"simulate", "commit", "assign"} => CurrentArgument # << >>
        /\ (pc = "fault" /\ fault \in PassFaults /\ CurrentArgument = << >>) =>
              fault = "AssertionError:97"
        /\ pc \in {"finalize", "done"} =>
              /\ Len(pass_batches) = Cardinality(PresentTourNums) * Len(spec.keys)
              /\ \A num \in PresentTourNums : \A i \in DOMAIN spec.keys :
                    \E t \in DOMAIN tours :
                        tours[t].tour_num = num /\ tours[t].tour_type = spec.keys[i]

EmptySubgroupWitness ==
    /\ spec.dict
    /\ Len(spec.keys) = 2
    /\ pc = "fault"
    /\ fault = "AssertionError:97"
    /\ CurrentArgument = << >>
    /\ Len(pass_batches) = 4
    /\ calls.assign = 3

\* the assign calls made for person p
AssignedTo(p) == {j \in DOMAIN assigned : assigned[j][1] = p}

\* C19: when a pass has raised at line 115 or at line 97 the timetable and
\* previous_tour_by_personid are what they were when the pass began, and
\* what the earlier passes assigned and wrote is still there: the timetable
\* is the one the run started from with every assigned pair added, and every
\* person holds the alternative of the last assign made for them.
AbortKeepsCommits ==
    (pc = "fault" /\ fault \in {"AssertionError:115", "AssertionError:97"}) =>
        /\ timetable = at_start.timetable
        /\ previous_tour_by_personid = at_start.previous
        /\ calls.assign = Len(choice_list)
        /\ calls.prev_write = Len(choice_list)
        /\ Len(assigned) = Len(Returned)
        /\ \A p \in Persons :
              timetable[p] = harness.timetable[p] \cup {assigned[j][2] : j \in AssignedTo(p)}
        /\ \A p \in DOMAIN previous_tour_by_personid :
              previous_tour_by_personid[p] =
                  IF AssignedTo(p) = {} THEN alts[1].id
                  ELSE assigned[CHOOSE j \in AssignedTo(p) :
                                    \A k \in AssignedTo(p) : k <= j][2]

AbortWitness ==
    /\ pc = "fault"
    /\ fault = "AssertionError:97"
    /\ CurrentArgument # << >>
    /\ Range(PersonIds(CurrentArgument)) \subseteq persons_merged
    /\ calls.assign >= 1
    /\ timetable # harness.timetable
    /\ \E p \in DOMAIN previous_tour_by_personid :
          previous_tour_by_personid[p] # alts[1].id

====
